---------------------------- MODULE Spec2Model ----------------------------
(***************************************************************************)
(* A model of tailor_with_gemini.py: the fallback invoker                  *)
(* retry_with_models, the two stages that run through it                   *)
(* (extract_company_and_position, generate_tailored_content) and main.     *)
(*                                                                         *)
(* Text is modelled as the sequence of its words.  A model name is the     *)
(* sequence of the words between its '-' separators, with '/' a word of    *)
(* its own: "models/gemini-1.5-pro" is <<"models","/","gemini","1.5",      *)
(* "pro">>.  An exception message is the sequence of its blank-separated   *)
(* words.  Python's substring test is the test for a contiguous run of     *)
(* words.                                                                  *)
(***************************************************************************)
EXTENDS Integers, Sequences, FiniteSets, TLC

(***************************************************************************)
(* Bounds of the model.                                                    *)
(***************************************************************************)
\* genai.GenerativeModel(name) may raise in the first MaxFailingConstructions
\* constructions of an invocation.
MaxFailingConstructions == 1

(***************************************************************************)
(* Words and texts.                                                        *)
(***************************************************************************)
\* str.lower() on one word (only the words that occur with capitals).
LowerWord(w) ==
  CASE w = "Quota" -> "quota"
    [] w = "QUOTA" -> "quota"
    [] w = "Not" -> "not"
    [] w = "Found" -> "found"
    [] w = "Resource" -> "resource"
    [] w = "Model" -> "model"
    [] w = "API" -> "api"
    [] w = "Company" -> "company"
    [] w = "Position" -> "position"
    [] OTHER -> w

\* str.lower() on a text.
Lower(t) == [i \in 1..Len(t) |-> LowerWord(t[i])]

\* Python's  p in t  for texts.
Contains(t, p) ==
  \E i \in 1..(Len(t) - Len(p) + 1) : SubSeq(t, i, i + Len(p) - 1) = p

(***************************************************************************)
(* Model names.                                                            *)
(***************************************************************************)
ModelsPrefix == <<"models", "/">>

\* model_name.startswith("models/")
StartsWithModels(n) == Len(n) >= 2 /\ SubSeq(n, 1, 2) = ModelsPrefix

\* f"models/{model_name}"
WithPrefix(n) == ModelsPrefix \o n

\* model_name.split('/')[-1]
LastSegment(n) ==
  LET slashes == {i \in 1..Len(n) : n[i] = "/"}
      last == IF slashes = {} THEN 0
              ELSE CHOOSE i \in slashes : \A j \in slashes : j <= i
  IN  SubSeq(n, last + 1, Len(n))

\* The literal FALLBACK_MODELS of retry_with_models.
FALLBACK_MODELS ==
  << <<"gemini", "2.0", "pro", "exp", "02", "05">>,
     <<"gemini", "2.0", "pro", "exp">>,
     <<"gemini", "1.5", "pro", "latest">>,
     <<"gemini", "1.5", "pro">>,
     <<"gemini", "1.5", "pro", "002">>,
     <<"gemini", "1.5", "pro", "001">>,
     <<"gemini", "2.0", "flash">>,
     <<"gemini", "2.0", "flash", "001">>,
     <<"gemini", "1.5", "flash", "latest">>,
     <<"gemini", "1.5", "flash">>,
     <<"gemini", "1.5", "flash", "002">>,
     <<"gemini", "1.5", "flash", "001">>,
     <<"gemini", "1.5", "flash", "001", "tuning">>,
     <<"gemini", "2.0", "flash", "lite">>,
     <<"gemini", "2.0", "flash", "lite", "001">>,
     <<"gemini", "2.0", "flash", "lite", "preview">>,
     <<"gemini", "2.0", "flash", "lite", "preview", "02", "05">>,
     <<"gemini", "2.0", "flash", "exp">>,
     <<"gemini", "exp", "1206">>,
     <<"learnlm", "1.5", "pro", "experimental">>,
     <<"gemini", "2.0", "flash", "thinking", "exp">>,
     <<"gemini", "2.0", "flash", "thinking", "exp", "1219">>,
     <<"gemini", "2.0", "flash", "thinking", "exp", "01", "21">> >>

(***************************************************************************)
(* Exceptions.  An exception object is the pair of the attempt that        *)
(* raised it and its message, so that two exceptions with the same         *)
(* message are still two objects.                                          *)
(***************************************************************************)
QuotaPhrase == <<"429", "Resource", "has", "been", "exhausted">>

\* The messages the provider raises with.
Messages ==
  { <<"429", "Resource", "has", "been", "exhausted">>,
    <<"429", "resource", "has", "been", "exhausted">>,
    <<"Quota", "exceeded", "for", "metric">>,
    <<"404", "model", "is", "unavailable">>,
    <<"Model", "Not", "Found">>,
    <<"400", "API", "key", "not", "valid">> }

NoExc == [id |-> 0, msg |-> <<>>]
Exc(n, m) == [id |-> n, msg |-> m]

\* A first attempt classified as the fallbacks are: 404 and not-found
\* messages lead to the fallbacks too.
FirstRetriesOnNotFound(e) ==
  \/ Contains(e.msg, QuotaPhrase)
  \/ Contains(Lower(e.msg), <<"quota">>)
  \/ Contains(e.msg, <<"404">>)
  \/ Contains(Lower(e.msg), <<"not", "found">>)

\* Line 193: the first attempt's failure leads to the fallbacks.
FirstErrorRetries(e) ==
  ~ (~ Contains(e.msg, QuotaPhrase) /\ ~ Contains(Lower(e.msg), <<"quota">>))

\* A loop that goes on after quota messages only.
ContinuesOnQuotaOnly(e) ==
  \/ Contains(e.msg, QuotaPhrase)
  \/ Contains(Lower(e.msg), <<"quota">>)

\* A loop that goes on after 404 and not-found messages only.
ContinuesOnNotFoundOnly(e) ==
  \/ Contains(e.msg, <<"404">>)
  \/ Contains(Lower(e.msg), <<"not", "found">>)

\* Lines 219-223: a fallback's failure lets the loop go on (no break).
FallbackErrorContinues(e) ==
  ~ (/\ ~ Contains(e.msg, QuotaPhrase)
     /\ ~ Contains(Lower(e.msg), <<"quota">>)
     /\ ~ Contains(e.msg, <<"404">>)
     /\ ~ Contains(Lower(e.msg), <<"not", "found">>))

(***************************************************************************)
(* Python values: the type and the text str() gives.                       *)
(***************************************************************************)
Str(t) == [t |-> "str", v |-> t]
PyInt(w) == [t |-> "int", v |-> <<w>>]
PyBool(w) == [t |-> "bool", v |-> <<w>>]
PyNone == [t |-> "NoneType", v |-> <<"None">>]
\* A dict is the sequence of its items, a list that of its elements, a tuple
\* that of its components.
Item(k, x) == [key |-> k, val |-> x]
Dict(items) == [t |-> "dict", v |-> items]
List(elems) == [t |-> "list", v |-> elems]
Tuple(a, b) == [t |-> "tuple", v |-> <<a, b>>]
\* No value (the call raised).
NoVal == [t |-> "none", v |-> <<>>]

\* a == b
PyEq(a, b) == a.t = b.t /\ a.v = b.v

\* Python's truth value.
Truthy(x) ==
  CASE x.t \in {"str", "dict", "list"} -> x.v # <<>>
    [] x.t = "int" -> x.v # <<"0">>
    [] x.t = "bool" -> x.v = <<"True">>
    [] x.t = "NoneType" -> FALSE
    [] OTHER -> TRUE

\* The sentinels.
UnknownCompany == Str(<<"Unknown Company">>)
UnknownPosition == Str(<<"Unknown Position">>)

\* d.get(k): None for an absent key.
DictGetNoDefault(d, k, default) ==
  LET hits == {i \in 1..Len(d.v) : d.v[i].key = k}
  IN  IF hits = {} THEN PyNone
      ELSE d.v[CHOOSE i \in hits : \A j \in hits : j <= i].val

\* d.get(k, default) on a dict: the last item with the key wins.
DictGet(d, k, default) ==
  LET hits == {i \in 1..Len(d.v) : d.v[i].key = k}
  IN  IF hits = {} THEN default
      ELSE d.v[CHOOSE i \in hits : \A j \in hits : j <= i].val

\* repr() of a str: the text in quotes.
RECURSIVE Repr(_)
RECURSIVE ReprItems(_, _)
RECURSIVE ReprElems(_, _)
Repr(x) ==
  CASE x.t = "str" -> <<"'">> \o x.v \o <<"'">>
    [] x.t = "dict" -> <<"{">> \o ReprItems(x.v, 1) \o <<"}">>
    [] x.t = "list" -> <<"[">> \o ReprElems(x.v, 1) \o <<"]">>
    [] OTHER -> x.v
ReprItems(items, i) ==
  IF i > Len(items) THEN <<>>
  ELSE <<"'", items[i].key, "'", ":">> \o Repr(items[i].val)
       \o (IF i < Len(items) THEN <<",">> ELSE <<>>) \o ReprItems(items, i + 1)
ReprElems(elems, i) ==
  IF i > Len(elems) THEN <<>>
  ELSE Repr(elems[i]) \o (IF i < Len(elems) THEN <<",">> ELSE <<>>)
       \o ReprElems(elems, i + 1)

\* str(x), which an f-string applies.
Format(x) == IF x.t = "str" THEN x.v ELSE Repr(x)

(***************************************************************************)
(* json.loads over a text whose words are JSON's tokens: the punctuation,  *)
(* quoted strings, numbers and the literals.                               *)
(***************************************************************************)
\* The contents of the quoted strings that occur.
QuotedWords == {"company", "position", "Acme", "Engineer", "name", ""}
Quote(w) == "\"" \o w \o "\""
IsQuoted(tok) == \E w \in QuotedWords : tok = Quote(w)
Unquote(tok) == CHOOSE w \in QuotedWords : tok = Quote(w)
NumberTokens == {"0", "42"}

\* The str of a JSON string.
JsonStr(tok) == IF Unquote(tok) = "" THEN Str(<<>>) ELSE Str(<<Unquote(tok)>>)

ParseFail == [ok |-> FALSE, val |-> NoVal, next |-> 0]
ParseOk(x, n) == [ok |-> TRUE, val |-> x, next |-> n]

RECURSIVE ParseValue(_, _)
RECURSIVE ParseMembers(_, _, _)
RECURSIVE ParseElements(_, _, _)
\* The JSON value that starts at word i.
ParseValue(t, i) ==
  IF i > Len(t) THEN ParseFail
  ELSE IF IsQuoted(t[i]) THEN ParseOk(JsonStr(t[i]), i + 1)
  ELSE IF t[i] \in NumberTokens THEN ParseOk(PyInt(t[i]), i + 1)
  ELSE IF t[i] = "null" THEN ParseOk(PyNone, i + 1)
  ELSE IF t[i] = "true" THEN ParseOk(PyBool("True"), i + 1)
  ELSE IF t[i] = "false" THEN ParseOk(PyBool("False"), i + 1)
  ELSE IF t[i] = "{"
       THEN IF i + 1 <= Len(t) /\ t[i + 1] = "}"
            THEN ParseOk(Dict(<<>>), i + 2)
            ELSE ParseMembers(t, i + 1, <<>>)
  ELSE IF t[i] = "["
       THEN IF i + 1 <= Len(t) /\ t[i + 1] = "]"
            THEN ParseOk(List(<<>>), i + 2)
            ELSE ParseElements(t, i + 1, <<>>)
  ELSE ParseFail
\* The members of an object from word i on, after the items acc.
ParseMembers(t, i, acc) ==
  IF ~ (i + 1 <= Len(t) /\ IsQuoted(t[i]) /\ t[i + 1] = ":") THEN ParseFail
  ELSE LET r == ParseValue(t, i + 2) IN
       IF ~ r.ok \/ r.next > Len(t) THEN ParseFail
       ELSE LET items == Append(acc, Item(Unquote(t[i]), r.val)) IN
            IF t[r.next] = "}" THEN ParseOk(Dict(items), r.next + 1)
            ELSE IF t[r.next] = "," THEN ParseMembers(t, r.next + 1, items)
            ELSE ParseFail
\* The elements of an array from word i on, after the elements acc.
ParseElements(t, i, acc) ==
  LET r == ParseValue(t, i) IN
  IF ~ r.ok \/ r.next > Len(t) THEN ParseFail
  ELSE LET elems == Append(acc, r.val) IN
       IF t[r.next] = "]" THEN ParseOk(List(elems), r.next + 1)
       ELSE IF t[r.next] = "," THEN ParseElements(t, r.next + 1, elems)
       ELSE ParseFail

\* json.loads(t): a value, or JSONDecodeError (ok is FALSE).
JsonLoads(t) ==
  LET r == ParseValue(t, 1) IN
  IF r.ok /\ r.next = Len(t) + 1 THEN r ELSE ParseFail

\* What one call of func did: it returned val or raised exc.
Returned(v) == [kind |-> "return", val |-> v, exc |-> NoExc]
Raised(e) == [kind |-> "raise", val |-> NoVal, exc |-> e]
NoOutcome == [kind |-> "none", val |-> NoVal, exc |-> NoExc]

\* A model handle: genai.GenerativeModel has model_name, another object may not.
Handle(n) == [named |-> TRUE, model_name |-> n]
Nameless == [named |-> FALSE, model_name |-> <<>>]

(***************************************************************************)
(* _extract_info (lines 426-515): the reply's text to a pair.              *)
(***************************************************************************)
\* The word that stands for the fence marker, three backquotes.
Fence == "'''"

\* The least member of a non-empty set of positions.
Least(S) == CHOOSE i \in S : \A j \in S : i <= j

\* The positions after i that hold word w.
After(t, i, w) == {j \in (i + 1)..Len(t) : t[j] = w}

\* Line 448, re.search(r"<fence>(?:json)?(.+?)<fence>", text, DOTALL): the group of
\* the leftmost match, as [ok, text].  The optional "json" is taken when a
\* non-empty group can follow it.
NoMatch == [ok |-> FALSE, text |-> <<>>]
Match(t) == [ok |-> TRUE, text |-> t]
FencedBlock(t) ==
  LET starts == {i \in 1..Len(t) : t[i] = Fence /\ After(t, i + 1, Fence) # {}}
  IN  IF starts = {} THEN NoMatch
      ELSE LET i == Least(starts) IN
           IF i + 1 <= Len(t) /\ t[i + 1] = "json" /\ After(t, i + 2, Fence) # {}
           THEN Match(SubSeq(t, i + 2, Least(After(t, i + 2, Fence)) - 1))
           ELSE Match(SubSeq(t, i + 1, Least(After(t, i + 1, Fence)) - 1))

\* Lines 460-461, re.search(r"\{[^{}]*\"company\"[^{}]*\"position\"[^{}]*\}"):
\* the leftmost brace span without inner braces that holds "company" and,
\* after it, "position".
BraceSpan(t) ==
  LET closes(i) == After(t, i, "{") \cup After(t, i, "}")
      spans == {i \in 1..Len(t) :
                  /\ t[i] = "{"
                  /\ closes(i) # {}
                  /\ t[Least(closes(i))] = "}"
                  /\ \E a, b \in (i + 1)..(Least(closes(i)) - 1) :
                       a < b /\ t[a] = Quote("company") /\ t[b] = Quote("position")}
  IN  IF spans = {} THEN NoMatch
      ELSE LET i == Least(spans) IN Match(SubSeq(t, i, Least(closes(i))))

\* Line 473: text.replace(<fence>, "").replace("json", "")
Cleaned(t) == SelectSeq(t, LAMBDA w : w # Fence /\ w # "json")

\* Lines 446-454: method 1.
Method1(t) ==
  IF Contains(t, <<Fence>>) /\ FencedBlock(t).ok /\ JsonLoads(FencedBlock(t).text).ok
  THEN JsonLoads(FencedBlock(t).text).val
  ELSE PyNone

\* Lines 457-467: method 2, run when method 1 left nothing.
Method2(t, info) ==
  IF ~ Truthy(info) /\ BraceSpan(t).ok /\ JsonLoads(BraceSpan(t).text).ok
  THEN JsonLoads(BraceSpan(t).text).val
  ELSE info

\* Lines 470-477: method 3, run when methods 1 and 2 left nothing.
Method3(t, info) ==
  IF ~ Truthy(info) /\ JsonLoads(Cleaned(t)).ok
  THEN JsonLoads(Cleaned(t)).val
  ELSE info

\* Lines 497 and 502, re.search(key + r"\"?\s*:\s*\"([^\"]+)\"", text,
\* IGNORECASE): the first quoted, non-empty value that follows the key (bare
\* or quoted, in any case) and a colon; default when there is none.
KeyValue(t, key, default) ==
  LET hits == {i \in 1..(Len(t) - 2) :
                 /\ LowerWord(t[i]) = key \/ t[i] = Quote(key)
                 /\ t[i + 1] = ":"
                 /\ IsQuoted(t[i + 2])
                 /\ Unquote(t[i + 2]) # ""}
  IN  IF hits = {} THEN default
      ELSE Str(<<Unquote(t[Least(hits) + 2])>>)

\* An except clause that lets every error through.
ReraisesEverything(e) == TRUE

\* Lines 383 and 510: the stage's own except clause lets the error through.
StageReraises(e) ==
  Contains(e.msg, QuotaPhrase) \/ Contains(Lower(e.msg), <<"quota">>)

\* Lines 509-515.
ExtractFailed(e) ==
  IF StageReraises(e) THEN Raised(e)
  ELSE Returned(Tuple(UnknownCompany, UnknownPosition))

\* The message of the AttributeError that x.get raises on a value that is no dict.
NoGetMessage(x) == <<"'" \o x.t \o "'", "object", "has", "no", "attribute", "'get'">>

\* Lines 479-487.
PullFields(info, n) ==
  IF info.t = "dict"
  THEN Returned(Tuple(DictGet(info, "company", UnknownCompany),
                      DictGet(info, "position", UnknownPosition)))
  ELSE ExtractFailed(Exc(n, NoGetMessage(info)))

\* _extract_info(model, prompt_text) in attempt n, the provider doing prov.
ExtractInfo(prov, n) ==
  IF prov.kind = "raise" THEN ExtractFailed(Exc(n, prov.msg))
  ELSE IF prov.kind = "none" \/ prov.text = <<>>
  THEN Returned(Tuple(UnknownCompany, UnknownPosition))
  ELSE LET info == Method3(prov.text, Method2(prov.text, Method1(prov.text))) IN
       IF Truthy(info) THEN PullFields(info, n)
       ELSE Returned(Tuple(KeyValue(prov.text, "company", UnknownCompany),
                           KeyValue(prov.text, "position", UnknownPosition)))

\* The texts the provider answers the extraction prompt with.
ExtractionReplies ==
  LET c == Quote("company")
      p == Quote("position")
      acme == Quote("Acme")
      eng == Quote("Engineer")
  IN  { <<>>,
        <<Fence, "json", "{", c, ":", acme, ",", p, ":", eng, "}", Fence>>,
        <<"Here", "{", c, ":", acme, ",", p, ":", eng, "}">>,
        <<"{", p, ":", eng, ",", c, ":", acme, "}">>,
        <<"{", c, ":", acme, "}">>,
        <<"{", c, ":", "42", ",", p, ":", eng, "}">>,
        <<"{", c, ":", "null", ",", p, ":", eng, "}">>,
        <<"{", c, ":", "{", Quote("name"), ":", acme, "}", ",", p, ":", eng, "}">>,
        <<"[", acme, ",", eng, "]">>,
        <<Fence, "json", "{", "}", Fence, "Position", ":", eng>>,
        <<Fence, "{", p, ":", eng, "}", Fence, "{", c, ":", acme, ",", p, ":",
          Quote("name"), "}">>,
        <<"garbage", "company", ":", acme, "and", "position", ":", eng>>,
        <<"the", "company", ":", Quote(""), "is", "unknown">>,
        <<Fence, "json", "[", "{", c, ":", acme, ",", p, ":", eng, "}", "]", Fence>>,
        <<Fence, "[", acme, "]", Fence, "company", ":", acme>> }

(***************************************************************************)
(* _generate_content (lines 290-388).                                      *)
(***************************************************************************)
\* Line 375, re.search(r"<fence>(?:latex)?\s*([\s\S]*?)<fence>", text): the group of
\* the leftmost match; the group may be empty.
LatexBlock(t) ==
  LET starts == {i \in 1..Len(t) : t[i] = Fence /\ After(t, i, Fence) # {}}
  IN  IF starts = {} THEN NoMatch
      ELSE LET i == Least(starts)
               from == IF t[i + 1] = "latex" THEN i + 1 ELSE i
           IN  Match(SubSeq(t, from + 1, Least(After(t, from, Fence)) - 1))

\* Line 380: text.replace(<fence> + "latex", "").replace(<fence>, "")
Unfenced(t) ==
  LET keep == {i \in 1..Len(t) :
                 /\ t[i] # Fence
                 /\ ~ (t[i] = "latex" /\ i > 1 /\ t[i - 1] = Fence)}
      F[i \in 0..Len(t)] ==
        IF i = 0 THEN <<>>
        ELSE IF i \in keep THEN Append(F[i - 1], t[i]) ELSE F[i - 1]
  IN  F[Len(t)]

\* White space, as words of its own.
Blank == {"\n", " "}

\* str.strip() (lines 377 and 380): the text without the white space at its
\* two ends.
Strip(t) ==
  LET solid == {i \in 1..Len(t) : t[i] \notin Blank}
  IN  IF solid = {} THEN <<>>
      ELSE SubSeq(t, Least(solid), CHOOSE i \in solid : \A j \in solid : j <= i)

\* Lines 369-381.
CleanReply(t) ==
  IF Contains(t, <<Fence>>)
  THEN IF LatexBlock(t).ok THEN Strip(LatexBlock(t).text) ELSE Strip(Unfenced(t))
  ELSE t

\* _generate_content(model, resume_content, ...) in attempt n.
GenerateContent(prov, n, resume) ==
  CASE prov.kind = "text" -> Returned(Str(CleanReply(prov.text)))
    [] prov.kind = "raise" ->
         IF StageReraises(Exc(n, prov.msg)) THEN Raised(Exc(n, prov.msg))
         ELSE Returned(Str(resume))
    [] prov.kind = "none" -> Returned(Str(resume))

\* The texts the provider answers the tailoring prompt with.
TailoringReplies ==
  { <<>>,
    <<"\\section", "Tailored">>,
    <<"\\section", "Experience">>,
    <<"Here", Fence, "latex", "\\section", "Tailored", Fence, "done">>,
    <<Fence, Fence, "\\section", "Tailored">>,
    <<Fence, "latex", "\\section", "Tailored">>,
    <<Fence, "\\section", "Tailored", Fence, "latex", "x", Fence>>,
    <<Fence, "latex", "\n", Fence>>,
    <<Fence, "latex", "\n", "\\section", "Tailored", "\n", Fence, "\n">> }

VARIABLES
  \* main
  pc,              \* where main is
  api_key,         \* os.environ.get("GEMINI_API_KEY"): "" when unset or empty
  args_company,    \* args.company: None when the flag is absent
  args_position,   \* args.position
  selected_model,
  model,           \* the loaded handle: the one retry_with_models is given
  resume_content,
  jd_content,
  company,
  position,
  tailored_content,
  saved,           \* the contents save_tailored_resume was called with, in order
  output,          \* the output file: [written, content]
  exit_code,       \* -1 while running
  exit_reason,
  listing,         \* what genai.list_models() does in this run
  extraction,      \* how extract_company_and_position ended, once it has
  generation,      \* how generate_tailored_content ended, once it has
  extract_requested, \* an extraction prompt has been sent to the provider
  \* retry_with_models
  catalog,         \* FALLBACK_MODELS
  func,            \* the callable retry_with_models runs
  rpc,             \* where retry_with_models is
  idx,             \* the for loop's position in FALLBACK_MODELS (1-based)
  tried_models,
  last_exception,
  result,          \* how the invocation ended: Returned(v) or Raised(e)
  calls,           \* handles func was called with, in order
  constructed,     \* names genai.GenerativeModel was called with, in order
  attempts,        \* attempts so far (a call of func, or a constructor that raised)
  lastOutcome,     \* what the most recent attempt did
  onlyQuota,       \* every attempt so far was a call of func that raised a quota message
  response,        \* what the provider call of the most recent attempt did
  result_text      \* _extract_info's result_text in the most recent attempt

mainVars == <<pc, api_key, args_company, args_position, selected_model, model,
              resume_content, jd_content, company, position, tailored_content,
              saved, output, exit_code, exit_reason, listing, extraction,
              generation>>

retryVars == <<catalog, func, rpc, idx, tried_models, last_exception, result,
               calls, constructed, attempts, lastOutcome, onlyQuota, response,
               result_text>>

vars == <<mainVars, retryVars, extract_requested>>

(***************************************************************************)
(* The provider.  One call of func makes at most one provider call; what   *)
(* the provider does there is an input of the step.                        *)
(***************************************************************************)
Says(t) == [kind |-> "text", text |-> t, msg |-> <<>>]
Fails(m) == [kind |-> "raise", text |-> <<>>, msg |-> m]
SaysNothing == [kind |-> "none", text |-> <<>>, msg |-> <<>>]
\* What a provider call did, without the text: no call was made, or it
\* answered with text, answered without, or raised.
NoCall == [kind |-> "nocall", msg |-> <<>>]
Did(prov) == [kind |-> prov.kind, msg |-> prov.msg]

\* Line 436: result_text, which _extract_info has once the response has text.
ResultText(f, prov) ==
  IF f = "_extract_info" /\ prov.kind = "text" THEN prov.text ELSE <<>>

\* What a caller-supplied operation can do with a model: return a value or
\* raise with any message.
OperationBehaviours ==
  {Says(t) : t \in {<<"r1">>, <<"r2">>}} \cup {Fails(m) : m \in Messages}

\* model.generate_content(prompt) returns a response with text, returns no
\* usable response, or raises.
ProviderBehaviours(f) ==
  CASE f = "operation" -> OperationBehaviours
    [] f = "_extract_info" ->
         {Says(t) : t \in ExtractionReplies} \cup {Fails(m) : m \in Messages}
           \cup {SaysNothing}
    [] f = "_generate_content" ->
         {Says(t) : t \in TailoringReplies} \cup {Fails(m) : m \in Messages}
           \cup {SaysNothing}

\* func(model, *args): what the callable does in attempt n, the provider
\* doing prov.
CallFunc(f, prov, n) ==
  CASE f = "operation" ->
         IF prov.kind = "text" THEN Returned(Str(prov.text))
         ELSE Raised(Exc(n, prov.msg))
    [] f = "_extract_info" -> ExtractInfo(prov, n)
    [] f = "_generate_content" -> GenerateContent(prov, n, resume_content)

(***************************************************************************)
(* retry_with_models                                                       *)
(***************************************************************************)
\* Lines 179-187: the names the initial handle puts into tried_models.
InitialTried(m) ==
  IF m.named
  THEN {m.model_name} \cup
       (IF StartsWithModels(m.model_name)
        THEN {LastSegment(m.model_name)}
        ELSE {WithPrefix(m.model_name)})
  ELSE {}

\* A skip test on the entry as it is written only.
TriedAsWritten(n, tried) == n \in tried

\* Line 203: the loop skips this catalog entry.
AlreadyTried(n, tried) == n \in tried \/ WithPrefix(n) \in tried

\* Lines 209-210.
MarkTried(n, tried) == tried \cup {n, WithPrefix(n)}

\* The call raised, with a message of the quota pattern.
QuotaFailure(o) ==
  /\ o.kind = "raise"
  /\ \/ Contains(o.exc.msg, QuotaPhrase)
     \/ Contains(Lower(o.exc.msg), <<"quota">>)

\* An extraction prompt goes out with a call of _extract_info.
NoteRequest == extract_requested' = (extract_requested \/ func = "_extract_info")

\* Lines 190-198: the except clause of the first attempt.
FirstFailed(e) ==
  /\ last_exception' = e
  /\ IF FirstErrorRetries(e)
     THEN /\ rpc' = IF Len(catalog) = 0 THEN "after" ELSE "loop"
          /\ UNCHANGED result
     ELSE /\ rpc' = "raised"
          /\ result' = Raised(e)

\* Lines 177-198: the call on the loaded model.
RetryFirst ==
  /\ rpc = "first"
  /\ \E prov \in ProviderBehaviours(func) :
       LET o == CallFunc(func, prov, 1) IN
       /\ response' = Did(prov)
       /\ result_text' = ResultText(func, prov)
       /\ tried_models' = tried_models \cup InitialTried(model)
       /\ calls' = <<model>>
       /\ attempts' = 1
       /\ lastOutcome' = o
       /\ onlyQuota' = QuotaFailure(o)
       /\ IF o.kind = "return"
          THEN /\ rpc' = "returned"
               /\ result' = o
               /\ UNCHANGED last_exception
          ELSE FirstFailed(o.exc)
  /\ idx' = 1
  /\ NoteRequest
  /\ UNCHANGED <<mainVars, catalog, func, constructed>>

\* A for statement that stays on its entry.
Stays ==
  /\ idx' = idx
  /\ rpc' = "loop"

\* A for statement that starts over.
Restarts ==
  /\ idx' = 1
  /\ rpc' = "loop"

\* The for statement moves on, or ends.
Advance ==
  /\ idx' = idx + 1
  /\ rpc' = IF idx < Len(catalog) THEN "loop" ELSE "after"

\* A fallback whose result is dropped: the loop goes on.
ResultDropped(o) ==
  /\ Advance
  /\ UNCHANGED <<result, last_exception>>

\* Lines 201-204: an entry already tried is passed over.
FallbackSkip ==
  /\ rpc = "loop"
  /\ AlreadyTried(catalog[idx], tried_models)
  /\ Advance
  /\ UNCHANGED <<mainVars, extract_requested, catalog, func, tried_models,
                 last_exception, result, calls, constructed, attempts,
                 lastOutcome, onlyQuota, response, result_text>>

\* Line 214: the fallback's call returned; so does retry_with_models.
FallbackSucceeded(o) ==
  /\ rpc' = "returned"
  /\ result' = o
  /\ UNCHANGED <<idx, last_exception>>

\* An except clause that does not record the fallback's exception.
ExceptionNotRecorded(e) ==
  /\ UNCHANGED last_exception
  /\ IF FallbackErrorContinues(e)
     THEN Advance
     ELSE rpc' = "after" /\ idx' = idx
  /\ UNCHANGED result

\* Lines 215-223: the except clause of one fallback attempt.
FallbackFailed(e) ==
  /\ last_exception' = e
  /\ IF FallbackErrorContinues(e)
     THEN Advance
     ELSE rpc' = "after" /\ idx' = idx
  /\ UNCHANGED result

\* Lines 206-214 with 215-223: one fallback attempt whose model is constructed.
FallbackAttempt ==
  /\ rpc = "loop"
  /\ ~ AlreadyTried(catalog[idx], tried_models)
  /\ tried_models' = MarkTried(catalog[idx], tried_models)
  /\ constructed' = Append(constructed, catalog[idx])
  /\ calls' = Append(calls, Handle(catalog[idx]))
  /\ attempts' = attempts + 1
  /\ \E prov \in ProviderBehaviours(func) :
       LET o == CallFunc(func, prov, attempts + 1) IN
       /\ response' = Did(prov)
       /\ result_text' = ResultText(func, prov)
       /\ lastOutcome' = o
       /\ onlyQuota' = (onlyQuota /\ QuotaFailure(o))
       /\ IF o.kind = "return"
          THEN FallbackSucceeded(o)
          ELSE FallbackFailed(o.exc)
  /\ NoteRequest
  /\ UNCHANGED <<mainVars, catalog, func>>

\* Lines 206-212 with 215-223: genai.GenerativeModel(model_name) raises.
FallbackConstructFails ==
  /\ rpc = "loop"
  /\ ~ AlreadyTried(catalog[idx], tried_models)
  /\ Len(constructed) < MaxFailingConstructions
  /\ tried_models' = MarkTried(catalog[idx], tried_models)
  /\ constructed' = Append(constructed, catalog[idx])
  /\ attempts' = attempts + 1
  /\ \E m \in Messages :
       LET e == Exc(attempts + 1, m) IN
       /\ lastOutcome' = Raised(e)
       /\ FallbackFailed(e)
  /\ onlyQuota' = FALSE
  /\ response' = NoCall
  /\ result_text' = <<>>
  /\ UNCHANGED <<mainVars, extract_requested, catalog, func, calls>>

\* Lines 225-227: the loop is over; raise last_exception.
RetryRaise ==
  /\ rpc = "after"
  /\ rpc' = "raised"
  /\ result' = Raised(last_exception)
  /\ UNCHANGED <<mainVars, extract_requested, catalog, func, idx, tried_models,
                 last_exception, calls, constructed, attempts,
                 lastOutcome, onlyQuota, response, result_text>>

RetryNext ==
  \/ RetryFirst
  \/ FallbackSkip
  \/ FallbackAttempt
  \/ FallbackConstructFails
  \/ RetryRaise

\* The local state of retry_with_models where p is "first" (at its first
\* line) or "idle" (no invocation runs).
RetryLocals(p) ==
  /\ rpc = p
  /\ idx = 1
  /\ tried_models = {}
  /\ last_exception = NoExc
  /\ result = NoOutcome
  /\ calls = <<>>
  /\ constructed = <<>>
  /\ attempts = 0
  /\ lastOutcome = NoOutcome
  /\ onlyQuota = TRUE
  /\ response = NoCall
  /\ result_text = <<>>

\* A tried set that outlives the invocation.
CarriedTried == tried_models

\* Line 175: the tried set of an invocation, as it is created.
FreshTried == {}

\* retry_with_models(f, model, ...) is called (p is "first"), or the caller
\* has taken its result (p is "idle").
SetRetry(f, p) ==
  /\ func' = f
  /\ rpc' = p
  /\ idx' = 1
  /\ tried_models' = FreshTried
  /\ last_exception' = NoExc
  /\ result' = NoOutcome
  /\ calls' = <<>>
  /\ constructed' = <<>>
  /\ attempts' = 0
  /\ lastOutcome' = NoOutcome
  /\ onlyQuota' = TRUE
  /\ response' = NoCall
  /\ result_text' = <<>>
  /\ UNCHANGED catalog

(***************************************************************************)
(* list_available_models (lines 70-120)                                    *)
(***************************************************************************)
\* Lines 89-93.
preferred_models ==
  << <<"models", "/", "gemini", "1.5", "flash">>,
     <<"models", "/", "gemini", "pro">>,
     <<"models", "/", "gemini", "1.5", "pro">> >>

\* What genai.list_models() does: it raises, or lists these names.
Listed(names) == [kind |-> "list", names |-> names]
ListingFails == [kind |-> "raise", names |-> <<>>]
Listings ==
  { ListingFails,
    Listed(<< <<"models", "/", "gemini", "1.5", "pro">>,
              <<"models", "/", "gemini", "pro", "vision">>,
              <<"models", "/", "gemini", "1.5", "flash">> >>),
    Listed(<< <<"models", "/", "embedding", "001">>,
              <<"models", "/", "gemini", "pro", "vision">> >>) }

InSeq(x, q) == \E i \in 1..Len(q) : q[i] = x

\* Line 106: a general text model.
IsTextModel(n) == Contains(n, <<"gemini">>) /\ ~ Contains(n, <<"vision">>)

\* The function's outcome: the name it returns, or sys.exit(1).
Selected(n) == [kind |-> "return", name |-> n]
\* A sys.exit that the except clause turns into the default name.
ExitCaught == [kind |-> "return", name |-> <<"gemini", "1.5", "pro">>]
Exits == [kind |-> "exit", name |-> <<>>]

\* A choice that scans the names listed, in their order, for a preferred one.
ChoosesInListingOrder(available) ==
  LET pref == {i \in 1..Len(available) : InSeq(available[i], preferred_models)}
      alt == {i \in 1..Len(available) : IsTextModel(available[i])}
  IN  IF pref # {} THEN Selected(LastSegment(available[Least(pref)]))
      ELSE IF alt # {} THEN Selected(LastSegment(available[Least(alt)]))
      ELSE Exits

\* Lines 88-115: the choice among the names listed.
ChooseModel(available) ==
  LET pref == {i \in 1..Len(preferred_models) :
                 InSeq(preferred_models[i], available)}
      alt == {i \in 1..Len(available) : IsTextModel(available[i])}
  IN  IF pref # {} THEN Selected(LastSegment(preferred_models[Least(pref)]))
      ELSE IF alt # {} THEN Selected(LastSegment(available[Least(alt)]))
      ELSE Exits

\* A listing failure that ends the process.
ListingFailureExits(l) ==
  IF l.kind = "raise" THEN Exits ELSE ChooseModel(l.names)

\* Lines 117-120: a failed listing gives the default; sys.exit passes the
\* except clause, which catches Exception only.
list_available_models(l) ==
  IF l.kind = "raise" THEN Selected(<<"gemini", "1.5", "pro">>)
  ELSE ChooseModel(l.names)

(***************************************************************************)
(* main (lines 542-626)                                                    *)
(***************************************************************************)
\* The documents the input files hold.
Resumes == { <<"\\section", "Experience">> }
JobDescription == <<"Engineer", "at", "Acme">>

\* time.strftime('%Y-%m-%d %H:%M:%S')
TimeStamp == "2025-01-01 00:00:00"

\* Lines 620-621: header_comment.
Header(c, p) ==
  <<"%", "Tailored", "resume", "for">> \o Format(c) \o <<"-">> \o Format(p)
    \o <<"\n">>
    \o <<"%", "Auto-tailored", "using", "Gemini", "AI", "on", TimeStamp, "\n", "\n">>

NoFile == [written |-> FALSE, content |-> <<>>]
File(t) == [written |-> TRUE, content |-> t]

\* An exit with status 0.
ExitsWithZero(why) ==
  /\ pc' = "exit"
  /\ exit_code' = 0
  /\ exit_reason' = why

\* sys.exit(1)
Exit(why) ==
  /\ pc' = "exit"
  /\ exit_code' = 1
  /\ exit_reason' = why

\* Lines 544-554: the credential, then genai.configure.
MainConfigure ==
  /\ pc = "main"
  /\ \/ /\ api_key = ""
        /\ Exit("no credential")
     \/ /\ api_key # ""
        /\ Exit("configure failed")
     \/ /\ api_key # ""
        /\ pc' = "list"
        /\ UNCHANGED <<exit_code, exit_reason>>
  /\ UNCHANGED <<listing, extraction, generation, api_key, args_company, args_position, selected_model, model,
                 resume_content, jd_content, company, position,
                 tailored_content, saved, output, retryVars, extract_requested>>

\* Line 557: selected_model = list_available_models()
MainListModels ==
  /\ pc = "list"
  /\ LET r == list_available_models(listing) IN
     IF r.kind = "exit"
     THEN Exit("no usable model") /\ UNCHANGED selected_model
     ELSE /\ selected_model' = r.name
          /\ pc' = "load"
          /\ UNCHANGED <<exit_code, exit_reason>>
  /\ UNCHANGED <<listing, extraction, generation, api_key, args_company, args_position, model, resume_content,
                 jd_content, company, position, tailored_content, saved,
                 output, retryVars, extract_requested>>

\* Lines 559-565: genai.GenerativeModel(selected_model).  The handle's
\* model_name is the name given, as it is or with the prefix.
MainLoadModel ==
  /\ pc = "load"
  /\ \/ Exit("model not loaded") /\ UNCHANGED model
     \/ /\ model' \in {Handle(selected_model), Handle(WithPrefix(selected_model))}
        /\ pc' = "read"
        /\ UNCHANGED <<exit_code, exit_reason>>
  /\ UNCHANGED <<listing, extraction, generation, api_key, args_company, args_position, selected_model,
                 resume_content, jd_content, company, position,
                 tailored_content, saved, output, retryVars, extract_requested>>

\* Lines 567-569 with read_file (230-237).
MainReadFiles ==
  /\ pc = "read"
  /\ \/ Exit("template unreadable") /\ UNCHANGED <<resume_content, jd_content>>
     \/ /\ resume_content' \in Resumes
        /\ Exit("job description unreadable")
        /\ UNCHANGED jd_content
     \/ /\ resume_content' \in Resumes
        /\ jd_content' = JobDescription
        /\ pc' = "validated"
        /\ UNCHANGED <<exit_code, exit_reason>>
  /\ UNCHANGED <<listing, extraction, generation, api_key, args_company, args_position, selected_model, model,
                 company, position, tailored_content, saved, output, retryVars,
                 extract_requested>>

\* An extraction asked for whatever the flags are.
AlwaysExtracts(c, p) == TRUE

\* Line 577: a flag is absent.
NeedsExtraction(c, p) == PyEq(c, PyNone) \/ PyEq(p, PyNone)

\* Lines 571-580: extract_company_and_position is called when a flag is absent.
MainExtractOrNot ==
  /\ pc = "validated"
  /\ company' = args_company
  /\ position' = args_position
  /\ IF NeedsExtraction(args_company, args_position)
     THEN pc' = "extract" /\ SetRetry("_extract_info", "first")
     ELSE pc' = "defaults" /\ UNCHANGED retryVars
  /\ UNCHANGED <<listing, extraction, generation, api_key, args_company, args_position, selected_model, model,
                 resume_content, jd_content, tailored_content, saved, output,
                 exit_code, exit_reason, extract_requested>>

\* How a stage ended: how its retry_with_models invocation ended and what
\* the stage gave its caller.
NotRun == [retry |-> "none", out |-> NoOutcome]
Ended(o) == [retry |-> result.kind, out |-> o]
\* The same, with whether the for loop ran through the whole catalog.
NotGenerated == [retry |-> "none", walked |-> FALSE, out |-> NoOutcome]
Generated(o) ==
  [retry |-> result.kind, walked |-> idx > Len(catalog), out |-> o]

\* An extractor without its try statement.
ExtractorUnguarded(r) == r

\* Lines 517-530: extract_company_and_position, retry_with_models having
\* ended as r.
extract_company_and_position(r) ==
  IF r.kind = "return" THEN r
  ELSE Returned(Tuple(UnknownCompany, UnknownPosition))

\* The extracted value, whatever was given.
TakesExtracted(given, extracted) == extracted

\* Lines 582-585: the extracted value is taken where none was given.
Filled(given, extracted) == IF PyEq(given, PyNone) THEN extracted ELSE given

\* Lines 578-594: the extractor has ended; main fills in what was not given,
\* and goes on if the extractor raised.
MainExtracted ==
  /\ pc = "extract"
  /\ rpc \in {"returned", "raised"}
  /\ LET o == extract_company_and_position(result) IN
     /\ extraction' = Ended(o)
     /\ IF o.kind = "return"
        THEN /\ company' = Filled(company, o.val.v[1])
             /\ position' = Filled(position, o.val.v[2])
        ELSE UNCHANGED <<company, position>>
  /\ pc' = "defaults"
  /\ SetRetry("none", "idle")
  /\ UNCHANGED <<listing, api_key, args_company, args_position, selected_model, model,
                 resume_content, jd_content, tailored_content, saved, output,
                 exit_code, exit_reason, generation, extract_requested>>

\* Lines 596-611: the defaults, then generate_tailored_content is called.
MainGenerate ==
  /\ pc = "defaults"
  /\ company' = IF PyEq(company, PyNone) THEN UnknownCompany ELSE company
  /\ position' = IF PyEq(position, PyNone) THEN UnknownPosition ELSE position
  /\ pc' = "transform"
  /\ SetRetry("_generate_content", "first")
  /\ UNCHANGED <<listing, extraction, generation, api_key, args_company, args_position, selected_model, model,
                 resume_content, jd_content, tailored_content, saved, output,
                 exit_code, exit_reason, extract_requested>>

\* A transform without its try statement.
TransformUnguarded(r) == r

\* Lines 390-395: generate_tailored_content, retry_with_models having ended
\* as r.
generate_tailored_content(r) ==
  IF r.kind = "return" THEN r ELSE Returned(Str(resume_content))

\* Content that is kept as the transform returned it.
KeptAsReturned(content) == content

\* Lines 612-614: empty or unchanged content gives way to the original.
OrOriginal(content) ==
  IF ~ Truthy(content) \/ PyEq(content, Str(resume_content))
  THEN Str(resume_content)
  ELSE content

\* Lines 607-618: the transform has ended; the original stands in if it raised.
MainGenerated ==
  /\ pc = "transform"
  /\ rpc \in {"returned", "raised"}
  /\ LET o == generate_tailored_content(result) IN
     /\ generation' = Generated(o)
     /\ tailored_content' = IF o.kind = "return" THEN OrOriginal(o.val)
                            ELSE Str(resume_content)
  /\ pc' = "save"
  /\ SetRetry("none", "idle")
  /\ UNCHANGED <<listing, api_key, args_company, args_position, selected_model, model,
                 resume_content, jd_content, company, position, saved, output,
                 exit_code, exit_reason, extraction, extract_requested>>

\* Lines 619-626 with save_tailored_resume (531-539): the file is written,
\* or the write fails and the process exits.
MainSave ==
  /\ pc = "save"
  /\ LET content == Header(company, position) \o tailored_content.v IN
     /\ saved' = Append(saved, content)
     /\ \/ /\ output' = File(content)
           /\ pc' = "done"
           /\ exit_code' = 0
           /\ UNCHANGED exit_reason
        \/ /\ Exit("output unwritable")
           /\ UNCHANGED output
  /\ UNCHANGED <<listing, extraction, generation, api_key, args_company, args_position, selected_model, model,
                 resume_content, jd_content, company, position,
                 tailored_content, retryVars, extract_requested>>

MainNext ==
  \/ MainConfigure
  \/ MainListModels
  \/ MainLoadModel
  \/ MainReadFiles
  \/ MainExtractOrNot
  \/ MainExtracted
  \/ MainGenerate
  \/ MainGenerated
  \/ MainSave

\* The values a flag may have.
CompanyFlags == {PyNone, Str(<<"Initech">>)}
PositionFlags == {PyNone, Str(<<"Analyst">>)}

Init ==
  /\ pc = "main"
  /\ api_key \in {"", "key"}
  /\ args_company \in CompanyFlags
  /\ args_position \in PositionFlags
  /\ selected_model = <<>>
  /\ model = Nameless
  /\ resume_content = <<>>
  /\ jd_content = <<>>
  /\ company = PyNone
  /\ position = PyNone
  /\ tailored_content = PyNone
  /\ saved = <<>>
  /\ output = NoFile
  /\ exit_code = -1
  /\ exit_reason = ""
  /\ listing \in Listings
  /\ extraction = NotRun
  /\ generation = NotGenerated
  /\ extract_requested = FALSE
  /\ catalog = FALLBACK_MODELS
  /\ func = "none"
  /\ RetryLocals("idle")

Next == MainNext \/ RetryNext

Spec == Init /\ [][Next]_vars

\* main runs on: a step that can be taken is taken.
FairSpec == Spec /\ WF_vars(Next)

(***************************************************************************)
(* retry_with_models on its own: any operation, any handle.                *)
(***************************************************************************)
\* The handles an invocation may be given.
InitialHandles ==
  { Handle(<<"gemini", "1.5", "flash">>),
    Handle(<<"models", "/", "gemini", "1.5", "pro">>),
    Handle(<<"models", "/", "gemini", "pro">>),
    Handle(<<"tunedModels", "/", "gemini", "2.0", "flash">>),
    Nameless }

\* main's variables when retry_with_models is called by itself.
NoMain ==
  /\ pc = "retry_with_models"
  /\ api_key = "key"
  /\ args_company = PyNone
  /\ args_position = PyNone
  /\ selected_model = <<>>
  /\ resume_content = <<>>
  /\ jd_content = <<>>
  /\ company = PyNone
  /\ position = PyNone
  /\ tailored_content = PyNone
  /\ saved = <<>>
  /\ output = NoFile
  /\ exit_code = -1
  /\ exit_reason = ""
  /\ listing = ListingFails
  /\ extraction = NotRun
  /\ generation = NotGenerated
  /\ extract_requested = FALSE

InitRetry ==
  /\ NoMain
  /\ catalog = FALLBACK_MODELS
  /\ func = "operation"
  /\ model \in InitialHandles
  /\ RetryLocals("first")

SpecRetry == InitRetry /\ [][RetryNext]_vars

(***************************************************************************)
(* retry_with_models over other catalogs: the literal, and catalogs that   *)
(* list a name twice, with and without the "models/" prefix.               *)
(***************************************************************************)
Catalogs ==
  LET x == <<"gemini", "1.5", "pro">>
      y == <<"gemini", "1.5", "flash">>
      z == <<"gemini", "pro">>
  IN  { FALLBACK_MODELS,
        <<>>,
        <<x, WithPrefix(x), y>>,
        <<WithPrefix(x), x, z>>,
        <<z, WithPrefix(y), z, y, WithPrefix(z), x>>,
        <<WithPrefix(WithPrefix(x)), WithPrefix(x), x, y>> }

InitCatalog ==
  /\ NoMain
  /\ catalog \in Catalogs
  /\ func = "operation"
  /\ model \in InitialHandles
  /\ RetryLocals("first")

SpecCatalog == InitCatalog /\ [][RetryNext]_vars

(***************************************************************************)
(* Properties of retry_with_models.                                        *)
(***************************************************************************)
IsPrefix(q, t) == Len(q) <= Len(t) /\ SubSeq(t, 1, Len(q)) = q

\* The catalog entries from position i on that are not in seen under either
\* form, each entered into seen as it is taken.
RECURSIVE Untried(_, _, _)
Untried(cat, i, seen) ==
  IF i > Len(cat) THEN <<>>
  ELSE IF cat[i] \in seen \/ WithPrefix(cat[i]) \in seen
       THEN Untried(cat, i + 1, seen)
       ELSE <<Handle(cat[i])>> \o
            Untried(cat, i + 1, seen \cup {cat[i], WithPrefix(cat[i])})

\* The names of the initial handle, with and without the prefix.
BothForms(m) ==
  IF ~ m.named THEN {}
  ELSE IF StartsWithModels(m.model_name)
       THEN {m.model_name, LastSegment(m.model_name)}
       ELSE {m.model_name, WithPrefix(m.model_name)}

ExpectedCalls == <<model>> \o Untried(catalog, 1, BothForms(model))

\* C1: while every attempt has been a call of the operation that failed with
\* a quota-pattern message, the calls made are the initial model followed by
\* the catalog entries not yet tried, in the catalog's order, and the
\* invocation raises only when all of them have been called.
C1_QuotaWalksWholeCatalog ==
  (attempts > 0 /\ onlyQuota) =>
    /\ IsPrefix(calls, ExpectedCalls)
    /\ (rpc \in {"after", "raised"} => calls = ExpectedCalls)
    /\ rpc # "returned"

C1_Witness ==
  /\ rpc = "raised"
  /\ onlyQuota
  /\ Len(calls) = Len(FALLBACK_MODELS)
  /\ model = Handle(<<"models", "/", "gemini", "1.5", "pro">>)

\* "x" and "models/x" are one model.
Identity(h) ==
  IF ~ h.named THEN <<>>
  ELSE IF StartsWithModels(h.model_name)
       THEN SubSeq(h.model_name, 3, Len(h.model_name))
       ELSE h.model_name

\* C2: in one invocation no two calls of the operation are on the same model,
\* "x" and "models/x" being the same model; so no fallback call is on the
\* initial model.
C2_AtMostOncePerModel ==
  \A i, j \in 1..Len(calls) : i < j => Identity(calls[i]) # Identity(calls[j])

C2_Witness ==
  /\ rpc = "raised"
  /\ catalog = <<WithPrefix(<<"gemini", "1.5", "pro">>), <<"gemini", "1.5", "pro">>,
                 <<"gemini", "pro">>>>
  /\ model = Handle(<<"models", "/", "gemini", "pro">>)
  /\ Len(calls) = 2

\* The message matches the quota pattern.
QuotaPattern(m) == Contains(m, QuotaPhrase) \/ Contains(Lower(m), <<"quota">>)

\* C3: a failure of the call on the initial model whose message is outside
\* the quota pattern is re-raised as it is, and no fallback model is
\* constructed or called.
C3_FirstFatalPropagates ==
  (attempts = 1 /\ lastOutcome.kind = "raise"
     /\ ~ QuotaPattern(lastOutcome.exc.msg)) =>
    /\ rpc = "raised"
    /\ result = lastOutcome
    /\ constructed = <<>>
    /\ calls = <<model>>

C3_Witness ==
  /\ rpc = "raised"
  /\ attempts = 1
  /\ lastOutcome.exc.msg = <<"Model", "Not", "Found">>

\* C4: once a call of the operation has succeeded the invocation has
\* returned that call's result, and the successful call is its last attempt.
C4_SuccessReturnsAtOnce ==
  /\ lastOutcome.kind = "return" => (rpc = "returned" /\ result = lastOutcome)
  /\ rpc = "returned" => (lastOutcome.kind = "return" /\ result = lastOutcome)

C4_Witness ==
  /\ rpc = "returned"
  /\ Len(calls) = 3
  /\ result = Returned(Str(<<"r1">>))

\* C5: an invocation that ends without a success raises the exception of
\* its most recent attempt.
C5_RaisesLastException ==
  rpc = "raised" => (lastOutcome.kind = "raise" /\ result = lastOutcome)

C5_Witness ==
  /\ rpc = "raised"
  /\ attempts >= 3
  /\ ~ QuotaPattern(result.exc.msg)

(***************************************************************************)
(* Properties of main and its two stages.                                  *)
(***************************************************************************)
\* The words of t before its first line end.
FirstLine(t) ==
  LET ends == {i \in 1..Len(t) : t[i] = "\n"}
  IN  IF ends = {} THEN t ELSE SubSeq(t, 1, Least(ends) - 1)

\* What follows the k-th line end of t.
RECURSIVE AfterLines(_, _)
AfterLines(t, k) ==
  IF k = 0 THEN t
  ELSE LET ends == {i \in 1..Len(t) : t[i] = "\n"}
       IN  IF ends = {} THEN <<>>
           ELSE AfterLines(SubSeq(t, Least(ends) + 1, Len(t)), k - 1)

\* The written file without its header: two comment lines and an empty line.
BodyOf(t) == AfterLines(t, 3)

\* C6: when the transform's retry_with_models invocation has raised,
\* generate_tailored_content has returned the original resume text, and the
\* body of the file main writes is the original resume.
C6_FailedTransformKeepsOriginal ==
  generation.retry = "raise" =>
    /\ generation.out = Returned(Str(resume_content))
    /\ pc \in {"save", "done", "exit"} => tailored_content = Str(resume_content)
    /\ \A i \in 1..Len(saved) : BodyOf(saved[i]) = resume_content
    /\ output.written => BodyOf(output.content) = resume_content

C6_Witness ==
  /\ generation.retry = "raise"
  /\ generation.walked
  /\ output.written
  /\ tailored_content = Str(<<"\\section", "Experience">>)

\* The run is past the reading of both input files.
Validated == jd_content # <<>>

\* C7: save_tailored_resume is called at most once, with the header followed
\* by the tailored document or the original; the process exits after the
\* inputs are read only from save_tailored_resume; and once the inputs are
\* read the call is eventually made.
C7_ValidatedRunSaves ==
  /\ [](Len(saved) <= 1)
  /\ [](\A i \in 1..Len(saved) :
          /\ saved[i] = Header(company, position) \o tailored_content.v
          /\ \/ tailored_content = Str(resume_content)
             \/ /\ generation.retry = "return"
                /\ tailored_content = generation.out.val)
  /\ []((Validated /\ pc = "exit") =>
          (Len(saved) = 1 /\ exit_reason = "output unwritable"))
  /\ (pc = "validated" ~> Len(saved) = 1)

C7_Witness ==
  /\ pc = "done"
  /\ Len(saved) = 1
  /\ extraction.retry = "raise"
  /\ generation.retry = "raise"

\* C8: with both flags given, extract_company_and_position is not called, no
\* extraction request is sent, and the first line of the written file names
\* the company and the position given.
C8_BothFlagsSkipExtraction ==
  (~ PyEq(args_company, PyNone) /\ ~ PyEq(args_position, PyNone)) =>
    /\ pc # "extract"
    /\ func # "_extract_info"
    /\ ~ extract_requested
    /\ extraction = NotRun
    /\ output.written =>
         FirstLine(output.content) =
           <<"%", "Tailored", "resume", "for">> \o args_company.v
             \o <<"-">> \o args_position.v

C8_Witness ==
  /\ args_company = Str(<<"Initech">>)
  /\ args_position = Str(<<"Analyst">>)
  /\ output.written
  /\ generation.retry = "return"

\* What the provider does when nothing can be recovered from it: no response
\* text, or a failure that is not a quota failure.
NothingRecovered(prov) ==
  \/ prov.kind = "none"
  \/ prov.kind = "text" /\ prov.text = <<>>
  \/ prov.kind = "raise" /\ ~ QuotaPattern(prov.msg)

\* C9: extract_company_and_position returns a pair and never raises; the pair
\* is ("Unknown Company", "Unknown Position") when retry_with_models has
\* raised, and when the provider gave nothing to recover from.
C9_ExtractorNeverRaises ==
  /\ extraction.retry # "none" =>
       /\ extraction.out.kind = "return"
       /\ extraction.out.val.t = "tuple"
       /\ Len(extraction.out.val.v) = 2
       /\ extraction.retry = "raise" =>
            extraction.out.val = Tuple(UnknownCompany, UnknownPosition)
  /\ \A prov \in ProviderBehaviours("_extract_info") :
       NothingRecovered(prov) =>
         extract_company_and_position(ExtractInfo(prov, 1)) =
           Returned(Tuple(UnknownCompany, UnknownPosition))

C9_Witness ==
  /\ extraction.retry = "raise"
  /\ extraction.out = Returned(Tuple(UnknownCompany, UnknownPosition))
  /\ pc = "done"

\* C10: both components of the pair extract_company_and_position returns are
\* strings.
C10_PairOfStrings ==
  extraction.retry # "none" =>
    /\ extraction.out.kind = "return"
    /\ \A i \in 1..Len(extraction.out.val.v) :
         extraction.out.val.v[i].t = "str"

(***************************************************************************)
(* list_available_models on its own: any listing of up to MaxListed names. *)
(***************************************************************************)
MaxListed == 3

\* The names a listing may hold.
ListedNames ==
  { <<"models", "/", "gemini", "1.5", "flash">>,
    <<"models", "/", "gemini", "pro">>,
    <<"models", "/", "gemini", "1.5", "pro">>,
    <<"models", "/", "gemini", "2.0", "flash">>,
    <<"models", "/", "gemini", "pro", "vision">>,
    <<"models", "/", "embedding", "001">> }

\* The listings: a failure, or up to MaxListed different names in any order.
AllListings ==
  {ListingFails} \cup
  {Listed(q) : q \in {q \in UNION {[1..n -> ListedNames] : n \in 0..MaxListed} :
                        \A i, j \in 1..Len(q) : i # j => q[i] # q[j]}}

InitList ==
  /\ pc = "list"
  /\ api_key = "key"
  /\ args_company = PyNone
  /\ args_position = PyNone
  /\ selected_model = <<>>
  /\ model = Nameless
  /\ resume_content = <<>>
  /\ jd_content = <<>>
  /\ company = PyNone
  /\ position = PyNone
  /\ tailored_content = PyNone
  /\ saved = <<>>
  /\ output = NoFile
  /\ exit_code = -1
  /\ exit_reason = ""
  /\ listing \in AllListings
  /\ extraction = NotRun
  /\ generation = NotGenerated
  /\ extract_requested = FALSE
  /\ catalog = FALLBACK_MODELS
  /\ func = "none"
  /\ RetryLocals("idle")

SpecList == InitList /\ [][MainListModels]_vars

(***************************************************************************)
(* Properties of list_available_models.                                    *)
(***************************************************************************)
\* list_available_models has been called and has ended.
ListingDone == pc \notin {"main", "list"} /\ exit_reason \notin {"no credential", "configure failed"}

\* The name without its "models/" prefix.
Stripped(n) == SubSeq(n, 3, Len(n))

\* The listing holds the name.
Available(n) == \E i \in 1..Len(listing.names) : listing.names[i] = n

\* The positions of the listing whose name has "gemini" and has no "vision".
TextModels ==
  {i \in 1..Len(listing.names) :
     /\ \E k \in 1..Len(listing.names[i]) : listing.names[i][k] = "gemini"
     /\ \A k \in 1..Len(listing.names[i]) : listing.names[i][k] # "vision"}

C12_NoUsableModelExits ==
  (/\ ListingDone
   /\ listing.kind = "list"
   /\ ~ Available(<<"models", "/", "gemini", "1.5", "flash">>)
   /\ ~ Available(<<"models", "/", "gemini", "pro">>)
   /\ ~ Available(<<"models", "/", "gemini", "1.5", "pro">>)
   /\ TextModels = {}) =>
    /\ pc = "exit"
    /\ exit_code = 1
    /\ exit_reason = "no usable model"
    /\ selected_model = <<>>

C12_Witness ==
  /\ pc = "exit"
  /\ exit_code = 1
  /\ listing = Listed(<< <<"models", "/", "gemini", "pro", "vision">>,
                         <<"models", "/", "embedding", "001">> >>)

\* C13: after a listing that raised, the model selected is gemini-1.5-pro and
\* the process has not exited for want of a model: main goes on to load it.
C13_ListingFailureGivesDefault ==
  (ListingDone /\ listing.kind = "raise") =>
    /\ selected_model = <<"gemini", "1.5", "pro">>
    /\ exit_reason # "no usable model"
    /\ pc = "load" \/ model # Nameless \/ exit_reason = "model not loaded"

C13_Witness ==
  /\ listing = ListingFails
  /\ pc = "read"
  /\ model = Handle(<<"models", "/", "gemini", "1.5", "pro">>)

(***************************************************************************)
(* Properties of main's exits.                                             *)
(***************************************************************************)
\* No call of the provider has been made.
NoProviderCall ==
  /\ selected_model = <<>>
  /\ model = Nameless
  /\ attempts = 0
  /\ response = NoCall
  /\ ~ extract_requested

\* No output file has been written, and none was asked for.
NoOutput == ~ output.written /\ saved = <<>>

\* C14: without a credential main exits with status 1 before any provider
\* call and writes no file; an unreadable input file and the lack of a usable
\* model end the process with status 1 and no file written; an unwritable
\* output path ends it with status 1.
C14_FatalCasesExitWithOne ==
  /\ (api_key = "" /\ pc # "main") =>
       /\ pc = "exit"
       /\ exit_code = 1
       /\ exit_reason = "no credential"
       /\ NoProviderCall
       /\ NoOutput
  /\ exit_reason \in {"template unreadable", "job description unreadable",
                      "no usable model"} =>
       /\ pc = "exit"
       /\ exit_code = 1
       /\ NoOutput
  /\ exit_reason = "output unwritable" =>
       /\ pc = "exit"
       /\ exit_code = 1
       /\ ~ output.written
  /\ exit_code = 0 => (pc = "done" /\ output.written)

C14_Witness ==
  /\ pc = "exit"
  /\ exit_code = 1
  /\ exit_reason = "output unwritable"
  /\ Len(saved) = 1

(***************************************************************************)
(* Properties of the fallback loop and of the stages that run through it.  *)
(***************************************************************************)
\* The message is of the quota pattern, or has "404" or, in any case,
\* "not found".
Retryable(m) ==
  \/ QuotaPattern(m)
  \/ Contains(m, <<"404">>)
  \/ Contains(Lower(m), <<"not", "found">>)

\* The catalog entry of the most recent fallback attempt.
LastEntry == constructed[Len(constructed)]

\* C15: after a failure on a fallback model with a retryable message the loop
\* has gone on past that entry (it is at a later entry or has run through the
\* catalog); after a failure with any other message the loop has stopped at
\* that entry, no later attempt is made, and that failure is what is raised.
C15_FallbackContinuesOrStops ==
  (attempts >= 2 /\ lastOutcome.kind = "raise") =>
    IF Retryable(lastOutcome.exc.msg)
    THEN /\ rpc = "loop" \/ idx > Len(catalog)
         /\ \E k \in 1..(idx - 1) : catalog[k] = LastEntry
         /\ rpc = "raised" => result = lastOutcome
    ELSE /\ rpc \in {"after", "raised"}
         /\ idx <= Len(catalog)
         /\ catalog[idx] = LastEntry
         /\ rpc = "raised" => result = lastOutcome

C15_Witness ==
  /\ rpc = "raised"
  /\ attempts = 3
  /\ lastOutcome.exc.msg = <<"400", "API", "key", "not", "valid">>
  /\ idx < Len(catalog)

\* The provider call of the most recent attempt raised.
ProviderRaised == response.kind = "raise"

NotFound(m) == Contains(m, <<"404">>) \/ Contains(Lower(m), <<"not", "found">>)

\* C16: in the transform step, after the generation call on a fallback model
\* has failed with a 404 or not-found message, the loop has gone on to a
\* later catalog entry or has run through the catalog.
C16_NotFoundOnFallbackContinues ==
  (func = "_generate_content" /\ attempts >= 2 /\ ProviderRaised
     /\ NotFound(response.msg)) =>
    /\ rpc # "returned"
    /\ rpc = "loop" \/ idx > Len(catalog)

\* What a stage gives when it fails.
SafeDefault(f) ==
  IF f = "_extract_info" THEN Tuple(UnknownCompany, UnknownPosition)
  ELSE Str(resume_content)

\* C17: in either stage, once the provider call on the model being attempted
\* has failed with a message outside the quota pattern, the invocation has
\* returned the stage's safe default (no further model is attempted, nothing
\* is raised), and the stage returns that default.
C17_FatalProviderErrorEndsStage ==
  (func \in {"_extract_info", "_generate_content"} /\ ProviderRaised
     /\ ~ QuotaPattern(response.msg)) =>
    /\ rpc = "returned"
    /\ result = Returned(SafeDefault(func))
    /\ func = "_extract_info" =>
         extract_company_and_position(result) = Returned(SafeDefault(func))
    /\ func = "_generate_content" =>
         generate_tailored_content(result) = Returned(SafeDefault(func))

C17_Witness ==
  /\ func = "_generate_content"
  /\ rpc = "returned"
  /\ attempts = 2
  /\ response.msg = <<"400", "API", "key", "not", "valid">>
  /\ result = Returned(Str(resume_content))

(***************************************************************************)
(* _extract_info through retry_with_models, on its own.                    *)
(***************************************************************************)
InitExtract ==
  /\ NoMain
  /\ catalog = FALLBACK_MODELS
  /\ func = "_extract_info"
  /\ model \in InitialHandles
  /\ RetryLocals("first")

SpecExtract == InitExtract /\ [][RetryNext]_vars

(***************************************************************************)
(* Properties of _extract_info's parsing.                                  *)
(***************************************************************************)
\* _extract_info has returned for a reply that has text.
Parsed ==
  /\ func = "_extract_info"
  /\ rpc = "returned"
  /\ response.kind = "text"
  /\ result_text # <<>>

\* What each layer yields by itself: a JSON value, or None.
Layer1(t) == Method1(t)
Layer2(t) == Method2(t, PyNone)
Layer3(t) == Method3(t, PyNone)

\* A JSON object that is not empty.
UsableObject(x) == x.t = "dict" /\ x.v # <<>>

\* The object of the first layer that yields a usable object.
FirstObject(t) ==
  IF UsableObject(Layer1(t)) THEN Layer1(t)
  ELSE IF UsableObject(Layer2(t)) THEN Layer2(t)
  ELSE Layer3(t)

SomeObject(t) ==
  UsableObject(Layer1(t)) \/ UsableObject(Layer2(t)) \/ UsableObject(Layer3(t))

\* The value the object has for the key, or the sentinel when it has none.
Field(d, k, sentinel) ==
  IF \E i \in 1..Len(d.v) : d.v[i].key = k
  THEN d.v[CHOOSE i \in 1..Len(d.v) :
             d.v[i].key = k /\ \A j \in (i + 1)..Len(d.v) : d.v[j].key # k].val
  ELSE sentinel

FieldsOf(d) ==
  Returned(Tuple(Field(d, "company", UnknownCompany),
                 Field(d, "position", UnknownPosition)))

\* C18: the result is taken from the first of the layers, in the order fenced
\* block, brace span, cleaned text, that yields a usable object.
C18_FirstLayerWithObjectDecides ==
  (Parsed /\ SomeObject(result_text)) =>
    result = FieldsOf(FirstObject(result_text))

\* The value the layers leave: that of the first layer whose value is true.
RecoveredValue(t) ==
  IF Truthy(Layer1(t)) THEN Layer1(t)
  ELSE IF Truthy(Layer2(t)) THEN Layer2(t)
  ELSE IF Truthy(Layer3(t)) THEN Layer3(t)
  ELSE PyNone

\* The first quoted, non-empty value that follows the key, in any case and
\* quoted or not, and a colon; the sentinel when there is none.
FirstValueFor(t, key, sentinel) ==
  LET at == {i \in 1..(Len(t) - 2) :
               /\ Lower(<<t[i]>>) = <<key>> \/ t[i] = "\"" \o key \o "\""
               /\ t[i + 1] = ":"
               /\ \E w \in QuotedWords \ {""} : t[i + 2] = "\"" \o w \o "\""}
  IN  IF at = {} THEN sentinel
      ELSE Str(<<CHOOSE w \in QuotedWords : t[Least(at) + 2] = "\"" \o w \o "\"">>)

Scanned(t) ==
  Returned(Tuple(FirstValueFor(t, "company", UnknownCompany),
                 FirstValueFor(t, "position", UnknownPosition)))

C20_NoObjectScansRawText ==
  (Parsed /\ ~ SomeObject(result_text)) => result = Scanned(result_text)

(***************************************************************************)
(* Termination of retry_with_models.  Each call of the operation and of    *)
(* the constructor ends, so a step that can be taken is taken.             *)
(***************************************************************************)
FairCatalog == SpecCatalog /\ WF_vars(RetryNext)

\* The invocation has ended.
RetryEnded == rpc \in {"returned", "raised"}

\* C21: an invocation calls the operation at most 1 + |catalog| times and
\* constructs no catalog entry in excess of its occurrences in the catalog;
\* it ends, in a return or a raise, with a result of that kind.
C21_InvocationTerminates ==
  /\ [](Len(calls) <= 1 + Len(catalog))
  /\ [](attempts <= 1 + Len(catalog))
  /\ [](\A i, j \in 1..Len(constructed) :
          i < j => \E a, b \in 1..Len(catalog) :
                     a < b /\ catalog[a] = constructed[i] /\ catalog[b] = constructed[j])
  /\ [](RetryEnded => result.kind = (IF rpc = "returned" THEN "return" ELSE "raise"))
  /\ <>RetryEnded

C21_Witness ==
  /\ rpc = "raised"
  /\ catalog = FALLBACK_MODELS
  /\ Len(calls) = 1 + Len(FALLBACK_MODELS)

(***************************************************************************)
(* One invocation of retry_with_models after another, in main.             *)
(***************************************************************************)
\* The transform invocation has called the operation.
TransformAttempted == func = "_generate_content" /\ attempts > 0

\* C22: an invocation starts with an empty tried set; the transform
\* invocation calls the initial model first and then the catalog entries from
\* the first one on, whatever the extraction invocation before it found:
\* while every constructor call succeeded its calls are the initial model
\* and the catalog entries that are not the initial model, in order, and
\* when every attempt failed on quota it raises only when all of them have
\* been called.
C22_EachInvocationStartsAfresh ==
  /\ (rpc = "first" => tried_models = {})
  /\ (TransformAttempted =>
        /\ calls[1] = model
        /\ tried_models \cap InitialTried(model) = InitialTried(model)
        /\ (onlyQuota => IsPrefix(calls, ExpectedCalls))
        /\ (onlyQuota /\ rpc = "raised" => calls = ExpectedCalls)
        /\ (attempts = Len(calls) => IsPrefix(calls, ExpectedCalls)))

\* The extraction invocation found every model quota-exhausted; the transform
\* invocation then found the initial model exhausted and was served by the
\* first catalog entry.
C22_Witness ==
  /\ extraction.retry = "raise"
  /\ TransformAttempted
  /\ rpc = "returned"
  /\ Len(calls) = 2
  /\ calls[2] = Handle(catalog[1])

(***************************************************************************)
(* The body of the written file.                                           *)
(***************************************************************************)
\* main has the content it is going to write, or has written it.
ContentSettled == pc \in {"save", "done"} \/ exit_reason = "output unwritable"

\* The transform stage returned empty content.
TransformReturnedEmpty == generation.out = Returned(Str(<<>>))

\* C23: with a resume that is not empty, the content main puts after the
\* header is not empty, and it is the original resume when the transform
\* stage returned empty content.
C23_BodyNeverEmpty ==
  (resume_content # <<>> /\ ContentSettled) =>
    /\ Truthy(tailored_content)
    /\ \A i \in 1..Len(saved) : BodyOf(saved[i]) # <<>>
    /\ (output.written => BodyOf(output.content) # <<>>)
    /\ (TransformReturnedEmpty =>
          /\ tailored_content = Str(resume_content)
          /\ \A i \in 1..Len(saved) : BodyOf(saved[i]) = resume_content
          /\ (output.written => BodyOf(output.content) = resume_content))

\* The provider's reply was cleaned to nothing and the written body is the
\* resume.
C23_Witness ==
  /\ resume_content # <<>>
  /\ TransformReturnedEmpty
  /\ generation.retry = "return"
  /\ output.written
  /\ BodyOf(output.content) = resume_content

(***************************************************************************)
(* A run of main with one of the two flags.                                *)
(***************************************************************************)
CompanyGiven == ~ PyEq(args_company, PyNone)
PositionGiven == ~ PyEq(args_position, PyNone)
OneFlag == CompanyGiven # PositionGiven

\* main is past lines 577-594, and past the defaults of lines 596-602.
PastExtraction ==
  pc \in {"defaults", "transform", "save", "done"} \/ exit_reason = "output unwritable"
PastDefaults ==
  pc \in {"transform", "save", "done"} \/ exit_reason = "output unwritable"

\* The i-th component of the pair the extractor returned, or the sentinel d
\* where that component is None.
Extracted(i, d) ==
  IF PyEq(extraction.out.val.v[i], PyNone) THEN d ELSE extraction.out.val.v[i]

\* C24: with exactly one of the two flags given, the extractor is called and
\* ends once; the value given is the one main goes on with and the one in the
\* first line of the written file; the other value is the extractor's, or its
\* sentinel when the extractor's invocation raised or gave None.
C24_OneFlagFillsTheOther ==
  /\ [](OneFlag =>
         /\ (pc = "extract" => extraction = NotRun)
         /\ (PastExtraction =>
               /\ extraction.retry # "none"
               /\ extraction.out.kind = "return"
               /\ (CompanyGiven => company = args_company)
               /\ (PositionGiven => position = args_position))
         /\ (PastDefaults =>
               /\ (~ CompanyGiven => company = Extracted(1, UnknownCompany))
               /\ (~ PositionGiven => position = Extracted(2, UnknownPosition))
               /\ (extraction.retry = "raise" =>
                     /\ (~ CompanyGiven => company = UnknownCompany)
                     /\ (~ PositionGiven => position = UnknownPosition)))
         /\ (output.written =>
               FirstLine(output.content) =
                 <<"%", "Tailored", "resume", "for">>
                   \o (IF CompanyGiven THEN args_company.v
                       ELSE Format(Extracted(1, UnknownCompany)))
                   \o <<"-">>
                   \o (IF PositionGiven THEN args_position.v
                       ELSE Format(Extracted(2, UnknownPosition)))))
  /\ [][extraction # NotRun => extraction' = extraction]_vars

\* The company was given and the extractor recovered another company and a
\* position: the file names the company given and the position recovered.
C24_Witness ==
  /\ args_company = Str(<<"Initech">>)
  /\ ~ PositionGiven
  /\ output.written
  /\ extraction.out.val.v[1] \notin {args_company, UnknownCompany}
  /\ position = extraction.out.val.v[2]
  /\ position \notin {PyNone, UnknownPosition}

=============================================================================
